---- MODULE Spec2Model ----
(***************************************************************************)
(* Model of the email corpus engine of gmail-mcp                           *)
(* (src/src/gmail_mcp/corpus.py): EmailCorpus.sync_sent_emails and         *)
(* EmailCorpus.find_similar_emails, together with the three collaborators  *)
(* they call: the paginated mail source, the embedding backend and the     *)
(* vector store.                                                           *)
(*                                                                         *)
(* Strings are sequences of one-character strings, so that strip(),        *)
(* slicing and concatenation are computed, not assumed.  Python's None is  *)
(* the empty tuple wherever the code tests a value for truthiness; an      *)
(* optional number is <<>> (None) or <<v>>.                                *)
(***************************************************************************)
EXTENDS Integers, Sequences, FiniteSets, TLC

(* ------------------------------ bounds --------------------------------- *)
\* number of distinct email ids; also the largest mailbox, the largest page
\* the mail source serves on its own account and the largest small
\* max_emails argument (the arguments are -1..NumIds and PageCap + 1)
NumIds == 2
\* largest n_results argument of find_similar_emails
MaxNResults == 2
\* largest distance the vector store reports
MaxDistance == 2
\* largest number of documents in a collection the style analysis is run on
MaxSampled == 6

(* -------------------------- program constants -------------------------- *)
\* corpus.py:82  min(remaining, 500)
PageCap == 500
\* corpus.py:126-127  email["to"][:500], email["subject"][:500]
MetaTrunc == 500

Procs == {1, 2}

None == <<>>
NoToken == 0

(* ------------------------------ strings -------------------------------- *)
Min(a, b) == IF a < b THEN a ELSE b

Max(a, b) == IF a > b THEN a ELSE b

\* Python slice s[:n] for n >= 0
Take(s, n) == SubSeq(s, 1, Min(n, Len(s)))

IsSpace(c) == c \in {" ", "\n", "\t", "\r"}

RECURSIVE LStrip(_)
LStrip(s) == IF s # <<>> /\ IsSpace(Head(s)) THEN LStrip(Tail(s)) ELSE s

RECURSIVE RStrip(_)
RStrip(s) == IF s # <<>> /\ IsSpace(s[Len(s)]) THEN RStrip(SubSeq(s, 1, Len(s) - 1)) ELSE s

\* str.strip()
Strip(s) == RStrip(LStrip(s))

\* Python truthiness of a str / list / None
Truthy(x) == x # <<>>

(* --------------------------- email records ----------------------------- *)
Ids == 1..NumIds

\* the shapes an email of the mail source can take (to, subject, body)
Shapes ==
    { [to |-> <<"a", "@", "x">>, subject |-> <<"h", "i">>, body |-> <<"O", "k", ".">>],
      [to |-> <<"b", "@", "y">>, subject |-> <<>>,         body |-> <<" ", "y", "o", "\n">>],
      [to |-> <<"a", "@", "x">>, subject |-> <<"r", "e">>, body |-> <<" ", "\n">>] }

DateOf(i) == <<"d", ToString(i)>>

ThreadOf(i) == <<"t", ToString(i)>>

EmailRecord(i, sh) ==
    [id |-> i, thread_id |-> ThreadOf(i), to |-> sh.to, subject |-> sh.subject,
     body |-> sh.body, date |-> DateOf(i)]

\* the contents an id can carry: email 1 exists in every shape (its record is
\* served with other contents later), the others in the first and the last
ShapesOf(i) ==
    IF i = 1 THEN Shapes
    ELSE { sh \in Shapes : sh.to = <<"a", "@", "x">> }

EmailRecords == UNION { { EmailRecord(i, sh) : sh \in ShapesOf(i) } : i \in Ids }

IdsOf(s) == { s[i].id : i \in 1..Len(s) }

DistinctIds(s) == \A i, j \in 1..Len(s) : s[i].id = s[j].id => i = j

\* the source lists the newest (highest id) record first
NewestFirst(s) == \A i, j \in 1..Len(s) : i < j => s[i].id > s[j].id

\* mailboxes: sequences of records, newest first, one record per id
RECURSIVE SeqsUpTo(_, _)
SeqsUpTo(S, n) ==
    IF n = 0 THEN { <<>> }
    ELSE LET shorter == SeqsUpTo(S, n - 1)
         IN  shorter \cup { Append(s, x) : s \in shorter, x \in S }

Mailboxes == { m \in SeqsUpTo(EmailRecords, NumIds) : NewestFirst(m) }

(* ------------------- mail source (external collaborator) --------------- *)
\* fetch_sent_page(max_results, page_token) -> (records, next_page_token).
\* A cursor is the index of the next record; the source serves at most
\* `chunk` records per page; a `trailing` source hands out a cursor with its
\* last non-empty page and answers that cursor with an empty page.
get_sent_emails(mb, chunk, trailing, max_results, token) ==
    LET start == IF token = NoToken THEN 1 ELSE token
        k     == Max(0, Min(Min(max_results, chunk), Len(mb) - start + 1))
        next  == start + k
        more  == next <= Len(mb) \/ (trailing /\ k > 0)
    IN  [emails |-> SubSeq(mb, start, start + k - 1),
         next_page_token |-> IF more THEN next ELSE NoToken]

\* a mail source that never runs dry: the record at position j is a new sent
\* mail with id j, every page asked for at least one record is non-empty and
\* comes with a next cursor
EndlessRecord(j) ==
    EmailRecord(j, [to |-> <<"a", "@", "x">>, subject |-> <<"h", "i">>,
                    body |-> IF j % 2 = 1 THEN <<"O", "k", ".">> ELSE <<" ", "\n">>])

endless_page(chunk, max_results, token) ==
    LET start == IF token = NoToken THEN 1 ELSE token
        k     == Max(0, Min(max_results, chunk))
    IN  [emails |-> [ j \in 1..k |-> EndlessRecord(start + j - 1) ],
         next_page_token |-> start + k]

(* ----------------- embedding backend (external collaborator) ----------- *)
CountChar(s, c) == Cardinality({ i \in 1..Len(s) : s[i] = c })

\* a deterministic vector per document
EmbedOne(doc) == << Len(doc), CountChar(doc, "a"), CountChar(doc, " ") >>

\* model.encode(documents): length- and order-preserving
encode(docs) == [ i \in 1..Len(docs) |-> EmbedOne(docs[i]) ]

(* -------------------- vector store (external collaborator) ------------- *)
StoredIds(st) == { st[i].id : i \in 1..Len(st) }

\* collection.get()["ids"]
collection_get_ids(st) == [ i \in 1..Len(st) |-> st[i].id ]

\* collection.count()
collection_count(st) == Len(st)

\* an entry is stored again under an id the collection already holds
AddEntryAgain(st, entry) == Append(st, entry)

\* one entry of collection.add: an id the collection already holds is left
\* as it is, without an error
AddEntry(st, entry) ==
    IF entry.id \in StoredIds(st) THEN st ELSE Append(st, entry)

\* collection.add(documents, embeddings, metadatas, ids): one entry per id,
\* in the order of the lists
RECURSIVE collection_add(_, _, _, _, _)
collection_add(st, docs, embs, metas, idl) ==
    IF idl = <<>> THEN st
    ELSE LET entry == [id |-> Head(idl), document |-> Head(docs),
                       embedding |-> Head(embs), metadata |-> Head(metas)]
         IN  collection_add(AddEntry(st, entry), Tail(docs), Tail(embs),
                            Tail(metas), Tail(idl))

(* ------------------------- Document Builder ---------------------------- *)
ToPrefix == <<"T", "o", ":", " ">>

SubjectPrefix == <<"\n", "S", "u", "b", "j", "e", "c", "t", ":", " ">>

BlankLine == <<"\n", "\n">>

\* corpus.py:119  skip test
HasBody(email) == Truthy(Strip(email.body))

\* corpus.py:122
BuildDocument(email) ==
    ToPrefix \o email.to \o SubjectPrefix \o email.subject \o BlankLine \o email.body

\* the recipient and the subject are stored whole
BuildMetadataWhole(email) ==
    [to |-> email.to, subject |-> email.subject,
     date |-> email.date, thread_id |-> email.thread_id]

\* corpus.py:124-131
BuildMetadata(email) ==
    [to |-> Take(email.to, MetaTrunc), subject |-> Take(email.subject, MetaTrunc),
     date |-> email.date, thread_id |-> email.thread_id]

(* --------------------------- Dedup Filter ------------------------------ *)
\* the dedup filter left out: every fetched email counts as new
FilterNewNoDedup(emails, existing_ids) == emails

\* corpus.py:102
FilterNew(emails, existing_ids) ==
    SelectSeq(emails, LAMBDA e : e.id \notin existing_ids)

\* the empty-body test left out: every new email yields a document
WithBodyKeepAll(emails) == emails

\* corpus.py:117-132: the emails that yield a document, order preserved
WithBody(emails) == SelectSeq(emails, HasBody)

\* the guard that never fires: the backend is called on an empty batch too
NoDocumentsNever(docs) == FALSE

\* corpus.py:134  if not documents
NoDocuments(docs) == ~Truthy(docs)

\* corpus.py:113,123
BuildDocuments(emails) == [ i \in 1..Len(emails) |-> BuildDocument(emails[i]) ]

\* corpus.py:114,124
BuildMetadatas(emails) == [ i \in 1..Len(emails) |-> BuildMetadata(emails[i]) ]

\* corpus.py:115,132
BuildIds(emails) == [ i \in 1..Len(emails) |-> emails[i].id ]

Stats(d, e, s) == [downloaded |-> d, embedded |-> e, skipped |-> s]

\* skipped counts the empty bodies only, not the ids already stored
FinalStatsEmptyOnly(all, docs) ==
    Stats(Len(all), Len(docs), Len(all) - Len(WithBody(all)))

\* corpus.py:152-156
FinalStats(all, docs) == Stats(Len(all), Len(docs), Len(all) - Len(docs))

\* corpus.py:105-109 and 135-139
SkippedStats(all) == Stats(Len(all), 0, Len(all))

\* the quota is not reduced by what was already fetched
PageSizeNoRemaining(max_emails_, n_all) == Min(max_emails_, PageCap)

\* corpus.py:80,82
PageSize(max_emails_, n_all) == Min(max_emails_ - n_all, PageCap)

(* ------------------------------- state --------------------------------- *)
VARIABLES
    mailbox,            \* mail source: the sent-mail records, in serving order
    src_chunk,          \* mail source: its own page limit
    src_trailing,       \* mail source: whether it ends with an empty page
    src_endless,        \* mail source: every page is non-empty and has a next cursor
    store,              \* the collection: sequence of stored documents
    pc,                 \* per caller: position inside sync_sent_emails
    max_emails,         \* per caller: argument
    progress_callback,  \* per caller: whether a callback was supplied
    all_emails,         \* per caller: accumulator (corpus.py:75)
    page_token,         \* per caller: cursor (corpus.py:76)
    documents,          \* per caller: corpus.py:113
    metadatas,          \* per caller: corpus.py:114
    ids,                \* per caller: corpus.py:115
    embeddings,         \* per caller: corpus.py:142
    stats,              \* per caller: the returned dict
    trace,              \* per caller: external calls made by the running call
    store0,             \* per caller: the collection when the call started
    repeat,             \* per caller: the call repeats the previous sync, source unchanged
    last_sync,          \* the previous completed sync, while the source is unchanged
    last_failure,       \* the previous sync if it raised, while the source is unchanged
    find,               \* the last find_similar_emails call and its result
    style               \* the last analyze_writing_style call and its result

vars == << mailbox, src_chunk, src_trailing, src_endless, store, pc,
           max_emails, progress_callback, all_emails, page_token, documents,
           metadatas, ids, embeddings, stats, trace, store0, repeat, last_sync,
           last_failure, find, style >>

source_vars == << mailbox, src_chunk, src_trailing, src_endless >>

built_vars == << documents, metadatas, ids, embeddings >>

MaxEmailsArgs == (-1..NumIds) \cup {PageCap + 1}

NoSync == [valid |-> FALSE, max_emails |-> 0]

NoFailure == [valid |-> FALSE]

NoFind == [called |-> FALSE]

NoStyle == [called |-> FALSE]

Init ==
    /\ mailbox \in Mailboxes
    /\ src_chunk \in 1..NumIds
    /\ src_trailing \in BOOLEAN
    /\ src_endless = FALSE
    /\ store = <<>>
    /\ pc = [p \in Procs |-> "idle"]
    /\ max_emails = [p \in Procs |-> 0]
    /\ progress_callback = [p \in Procs |-> FALSE]
    /\ all_emails = [p \in Procs |-> <<>>]
    /\ page_token = [p \in Procs |-> NoToken]
    /\ documents = [p \in Procs |-> <<>>]
    /\ metadatas = [p \in Procs |-> <<>>]
    /\ ids = [p \in Procs |-> <<>>]
    /\ embeddings = [p \in Procs |-> <<>>]
    /\ stats = [p \in Procs |-> Stats(0, 0, 0)]
    /\ trace = [p \in Procs |-> <<>>]
    /\ store0 = [p \in Procs |-> <<>>]
    /\ repeat = [p \in Procs |-> FALSE]
    /\ last_sync = NoSync
    /\ last_failure = NoFailure
    /\ find = NoFind
    /\ style = NoStyle

\* no call is running and none has been made
NoCall ==
    /\ pc = [p \in Procs |-> "idle"]
    /\ max_emails = [p \in Procs |-> 0]
    /\ progress_callback = [p \in Procs |-> FALSE]
    /\ all_emails = [p \in Procs |-> <<>>]
    /\ page_token = [p \in Procs |-> NoToken]
    /\ documents = [p \in Procs |-> <<>>]
    /\ metadatas = [p \in Procs |-> <<>>]
    /\ ids = [p \in Procs |-> <<>>]
    /\ embeddings = [p \in Procs |-> <<>>]
    /\ stats = [p \in Procs |-> Stats(0, 0, 0)]
    /\ trace = [p \in Procs |-> <<>>]
    /\ store0 = [p \in Procs |-> <<>>]
    /\ repeat = [p \in Procs |-> FALSE]
    /\ last_sync = NoSync
    /\ last_failure = NoFailure
    /\ find = NoFind
    /\ style = NoStyle

AllIdle == \A p \in Procs : pc[p] = "idle"

(* ----------------------- sync_sent_emails ------------------------------ *)
\* corpus.py:58-76: the call is entered
SyncStart(p, m, cb) ==
    /\ pc[p] = "idle"
    /\ ~find.called
    /\ ~style.called
    /\ pc' = [pc EXCEPT ![p] = "loop"]
    /\ max_emails' = [max_emails EXCEPT ![p] = m]
    /\ progress_callback' = [progress_callback EXCEPT ![p] = cb]
    /\ all_emails' = [all_emails EXCEPT ![p] = <<>>]
    /\ page_token' = [page_token EXCEPT ![p] = NoToken]
    /\ store0' = [store0 EXCEPT ![p] = store]
    /\ repeat' = [repeat EXCEPT ![p] = last_sync.valid /\ last_sync.max_emails = m]
    /\ last_sync' = NoSync
    /\ last_failure' = IF last_failure.valid /\ last_failure.max_emails = m
                       THEN last_failure ELSE NoFailure
    /\ UNCHANGED << source_vars, store, built_vars, stats, trace, find, style >>

\* the loop is entered once more when the quota is just reached
LoopContinuesAtQuota(n_all, max_emails_) == n_all <= max_emails_

\* corpus.py:79  while len(all_emails) < max_emails
LoopContinues(n_all, max_emails_) == n_all < max_emails_

\* where the loop goes after a non-empty page: corpus.py:94-95, then 79
AfterPage(token) == IF token # NoToken THEN "loop" ELSE "filter"

\* corpus.py:79-95: one iteration of the while loop up to the callback
FetchPage(p) ==
    /\ pc[p] = "loop"
    /\ LoopContinues(Len(all_emails[p]), max_emails[p])
    /\ LET max_results == PageSize(max_emails[p], Len(all_emails[p]))
           r == IF src_endless
                THEN endless_page(src_chunk, max_results, page_token[p])
                ELSE get_sent_emails(mailbox, src_chunk, src_trailing,
                                     max_results, page_token[p])
           ev == [op |-> "get_sent_emails", max_results |-> max_results,
                  page_token |-> page_token[p], returned |-> Len(r.emails),
                  next_page_token |-> r.next_page_token]
       IN  /\ trace' = [trace EXCEPT ![p] = Append(@, ev)]
           /\ page_token' = [page_token EXCEPT ![p] = r.next_page_token]
           /\ IF ~Truthy(r.emails)
              THEN /\ pc' = [pc EXCEPT ![p] = "filter"]
                   /\ UNCHANGED all_emails
              ELSE /\ all_emails' = [all_emails EXCEPT ![p] = @ \o r.emails]
                   /\ pc' = [pc EXCEPT ![p] =
                               IF progress_callback[p] THEN "progress"
                               ELSE AfterPage(r.next_page_token)]
    /\ UNCHANGED << source_vars, store, max_emails, progress_callback,
                    built_vars, stats, store0, repeat, last_sync, last_failure, find, style >>

\* the two arguments of the callback in the wrong order
ProgressCallSwapped(n_all, total) ==
    [op |-> "progress_callback", current |-> total, total |-> n_all]

\* corpus.py:92  progress_callback(len(all_emails), max_emails)
ProgressCall(n_all, total) ==
    [op |-> "progress_callback", current |-> n_all, total |-> total]

\* corpus.py:91-95: the callback, then the cursor test
Progress(p) ==
    /\ pc[p] = "progress"
    /\ trace' = [trace EXCEPT ![p] =
                   Append(@, ProgressCall(Len(all_emails[p]), max_emails[p]))]
    /\ pc' = [pc EXCEPT ![p] = AfterPage(page_token[p])]
    /\ UNCHANGED << source_vars, store, max_emails, progress_callback,
                    all_emails, page_token, built_vars, stats, store0,
                    repeat, last_sync, last_failure, find, style >>

\* corpus.py:79: the loop condition fails
LoopExit(p) ==
    /\ pc[p] = "loop"
    /\ ~LoopContinues(Len(all_emails[p]), max_emails[p])
    /\ pc' = [pc EXCEPT ![p] = "filter"]
    /\ UNCHANGED << source_vars, store, max_emails, progress_callback,
                    all_emails, page_token, built_vars, stats, trace, store0,
                    repeat, last_sync, last_failure, find, style >>

\* corpus.py:97-139: read the stored ids, dedup, build the documents
Filter(p) ==
    /\ pc[p] = "filter"
    /\ LET existing_ids == { collection_get_ids(store)[i] : i \in 1..Len(store) }
           new_emails == FilterNew(all_emails[p], existing_ids)
           kept == WithBody(new_emails)
       IN  IF ~Truthy(all_emails[p])
           THEN /\ stats' = [stats EXCEPT ![p] = Stats(0, 0, 0)]
                /\ pc' = [pc EXCEPT ![p] = "returned"]
                /\ UNCHANGED << built_vars, trace >>
           ELSE /\ trace' = [trace EXCEPT ![p] =
                               Append(@, [op |-> "get", existing |-> existing_ids])]
                /\ IF ~Truthy(new_emails)
                   THEN /\ stats' = [stats EXCEPT ![p] = SkippedStats(all_emails[p])]
                        /\ pc' = [pc EXCEPT ![p] = "returned"]
                        /\ UNCHANGED built_vars
                   ELSE /\ documents' = [documents EXCEPT ![p] = BuildDocuments(kept)]
                        /\ metadatas' = [metadatas EXCEPT ![p] = BuildMetadatas(kept)]
                        /\ ids' = [ids EXCEPT ![p] = BuildIds(kept)]
                        /\ UNCHANGED embeddings
                        /\ IF NoDocuments(BuildDocuments(kept))
                           THEN /\ stats' = [stats EXCEPT ![p] = SkippedStats(all_emails[p])]
                                /\ pc' = [pc EXCEPT ![p] = "returned"]
                           ELSE /\ pc' = [pc EXCEPT ![p] = "encode"]
                                /\ UNCHANGED stats
    /\ UNCHANGED << source_vars, store, max_emails, progress_callback,
                    all_emails, page_token, store0, repeat, last_sync, last_failure, find, style >>

\* corpus.py:142: the embedding backend is called on the whole batch
Encode(p) ==
    /\ pc[p] = "encode"
    /\ embeddings' = [embeddings EXCEPT ![p] = encode(documents[p])]
    /\ trace' = [trace EXCEPT ![p] =
                   Append(@, [op |-> "encode", documents |-> documents[p],
                              ids |-> ids[p]])]
    /\ pc' = [pc EXCEPT ![p] = "add"]
    /\ UNCHANGED << source_vars, store, max_emails, progress_callback,
                    all_emails, page_token, documents, metadatas, ids, stats,
                    store0, repeat, last_sync, last_failure, find, style >>

\* corpus.py:145-156: the store write and the final statistics
Add(p) ==
    /\ pc[p] = "add"
    /\ store' = collection_add(store, documents[p], embeddings[p],
                               metadatas[p], ids[p])
    /\ trace' = [trace EXCEPT ![p] =
                   Append(@, [op |-> "add", documents |-> documents[p],
                              embeddings |-> embeddings[p],
                              metadatas |-> metadatas[p], ids |-> ids[p]])]
    /\ stats' = [stats EXCEPT ![p] = FinalStats(all_emails[p], documents[p])]
    /\ pc' = [pc EXCEPT ![p] = "returned"]
    /\ UNCHANGED << source_vars, max_emails, progress_callback, all_emails,
                    page_token, built_vars, store0, repeat, last_sync, last_failure, find, style >>

\* the caller takes the result; the frame of the call is dropped
Return(p) ==
    /\ pc[p] = "returned"
    /\ pc' = [pc EXCEPT ![p] = "idle"]
    /\ last_sync' = [valid |-> TRUE, max_emails |-> max_emails[p]]
    /\ max_emails' = [max_emails EXCEPT ![p] = 0]
    /\ progress_callback' = [progress_callback EXCEPT ![p] = FALSE]
    /\ all_emails' = [all_emails EXCEPT ![p] = <<>>]
    /\ page_token' = [page_token EXCEPT ![p] = NoToken]
    /\ documents' = [documents EXCEPT ![p] = <<>>]
    /\ metadatas' = [metadatas EXCEPT ![p] = <<>>]
    /\ ids' = [ids EXCEPT ![p] = <<>>]
    /\ embeddings' = [embeddings EXCEPT ![p] = <<>>]
    /\ stats' = [stats EXCEPT ![p] = Stats(0, 0, 0)]
    /\ trace' = [trace EXCEPT ![p] = <<>>]
    /\ store0' = [store0 EXCEPT ![p] = <<>>]
    /\ repeat' = [repeat EXCEPT ![p] = FALSE]
    /\ last_failure' = NoFailure
    /\ UNCHANGED << source_vars, store, find, style >>

(* --------------------- failures of the collaborators ------------------- *)
\* a failed external call is retried at the same place
OnFailureRetry(stage) == stage

\* corpus.py:58-156 has no except clause: an exception raised by an external
\* call leaves sync_sent_emails at once
OnFailure(stage) == "raised"

\* the external call made at position `stage` raises instead of returning
Fails(p, stage, call) ==
    /\ pc[p] = stage
    /\ trace' = [trace EXCEPT ![p] = Append(@, [op |-> "raise", call |-> call])]
    /\ pc' = [pc EXCEPT ![p] = OnFailure(stage)]
    /\ UNCHANGED << source_vars, store, max_emails, progress_callback,
                    all_emails, page_token, built_vars, stats, store0, repeat,
                    last_sync, last_failure, find, style >>

\* corpus.py:82: gmail.get_sent_emails raises, on any page
FetchFails(p) ==
    /\ LoopContinues(Len(all_emails[p]), max_emails[p])
    /\ Fails(p, "loop", "get_sent_emails")

\* corpus.py:101: collection.get raises (the call is reached with a batch only)
GetFails(p) ==
    /\ Truthy(all_emails[p])
    /\ Fails(p, "filter", "get")

\* corpus.py:142: model.encode raises
EncodeFails(p) == Fails(p, "encode", "encode")

\* corpus.py:145: collection.add raises; the write is one call for the whole
\* batch, a call that raises has stored nothing
AddFails(p) == Fails(p, "add", "add")

\* the exception reaches the caller; the frame of the call is dropped
Raise(p) ==
    /\ pc[p] = "raised"
    /\ pc' = [pc EXCEPT ![p] = "idle"]
    /\ last_failure' = [valid |-> TRUE, max_emails |-> max_emails[p],
                        call |-> trace[p][Len(trace[p])].call,
                        fetched |-> all_emails[p], documents |-> documents[p],
                        ids |-> ids[p], store |-> store]
    /\ last_sync' = NoSync
    /\ max_emails' = [max_emails EXCEPT ![p] = 0]
    /\ progress_callback' = [progress_callback EXCEPT ![p] = FALSE]
    /\ all_emails' = [all_emails EXCEPT ![p] = <<>>]
    /\ page_token' = [page_token EXCEPT ![p] = NoToken]
    /\ documents' = [documents EXCEPT ![p] = <<>>]
    /\ metadatas' = [metadatas EXCEPT ![p] = <<>>]
    /\ ids' = [ids EXCEPT ![p] = <<>>]
    /\ embeddings' = [embeddings EXCEPT ![p] = <<>>]
    /\ stats' = [stats EXCEPT ![p] = Stats(0, 0, 0)]
    /\ trace' = [trace EXCEPT ![p] = <<>>]
    /\ store0' = [store0 EXCEPT ![p] = <<>>]
    /\ repeat' = [repeat EXCEPT ![p] = FALSE]
    /\ UNCHANGED << source_vars, store, find, style >>

(* ----------------------------- environment ----------------------------- *)
\* the sent-mail folder after one change: a new mail (newest first), a
\* deleted mail, or a record whose contents were replaced under the same id
MailboxChanges(mb) ==
    LET Others(m, i) == SelectSeq(m, LAMBDA e : e.id # i)
    IN  { m \in Mailboxes : m # mb /\ \E i \in Ids : Others(m, i) = Others(mb, i) }

\* the mail source changes between calls
ChangeSource ==
    /\ AllIdle
    /\ ~find.called
    /\ \/ mailbox' \in MailboxChanges(mailbox) /\ UNCHANGED << src_chunk, src_trailing >>
       \/ src_chunk' \in (1..NumIds) \ {src_chunk} /\ UNCHANGED << mailbox, src_trailing >>
       \/ src_trailing' = ~src_trailing /\ UNCHANGED << mailbox, src_chunk >>
    /\ last_sync' = NoSync
    /\ last_failure' = NoFailure
    /\ UNCHANGED << src_endless, find, style, store, pc, max_emails, progress_callback, all_emails,
                    page_token, built_vars, stats, trace, store0, repeat >>

(* ---------------------- find_similar_emails ---------------------------- *)
\* str `sub` occurs in str `s`
Contains(s, sub) ==
    \E i \in 0..(Len(s) - Len(sub)) : SubSeq(s, i + 1, i + Len(sub)) = sub

Queries == { <<"h", "i">> }

RecipientFilters == { None, <<"a">>, <<"z">> }

Distances == 0..MaxDistance

\* corpus.py:179-181
WhereFilter(recipient_filter) ==
    IF Truthy(recipient_filter) THEN << [to_contains |-> recipient_filter] >> ELSE None

\* collection.query(query_texts=[query], n_results, where): the possible
\* answers of the vector store.  The ranking is the backend's; it returns the
\* min(n_results, matches) best matches, distances ascending when present.
QueryResults(st, n_results, where) ==
    LET matches == { i \in 1..Len(st) :
                       where = None \/ Contains(st[i].metadata.to, where[1].to_contains) }
        k == Min(n_results, Cardinality(matches))
        rankings == { r \in [1..k -> matches] : \A i, j \in 1..k : r[i] = r[j] => i = j }
        dists == { d \in [1..k -> Distances] : \A i \in 1..(k - 1) : d[i] <= d[i + 1] }
        answer(r, with_meta, ds) ==
            [documents |-> << [i \in 1..k |-> st[r[i]].document] >>,
             metadatas |-> IF with_meta THEN << [i \in 1..k |-> st[r[i]].metadata] >>
                           ELSE None,
             distances |-> ds]
    IN  { answer(r, with_meta, ds) :
            r \in rankings, with_meta \in BOOLEAN,
            ds \in { None } \cup { << d >> : d \in dists } }

\* dict.get(key, default) on a stored metadata record or on {}
MetaGet(metadata, key, default) ==
    IF key \in DOMAIN metadata THEN metadata[key] ELSE default

Unknown == <<"U", "n", "k", "n", "o", "w", "n">>

\* Python truthiness of an optional number: None and 0 are false
TruthyNum(x) == x # None /\ x[1] # 0

\* corpus.py:203
Similarity(distance) == IF TruthyNum(distance) THEN << 1 - distance[1] >> ELSE None

\* corpus.py:193-205: one hit
FormatHit(results, i) ==
    LET doc == results.documents[1][i]
        metadata == IF Truthy(results.metadatas) THEN results.metadatas[1][i]
                    ELSE [x \in {} |-> x]
        distance == IF Truthy(results.distances) THEN << results.distances[1][i] >>
                    ELSE None
    IN  [content |-> doc,
         to |-> MetaGet(metadata, "to", Unknown),
         subject |-> MetaGet(metadata, "subject", <<>>),
         date |-> MetaGet(metadata, "date", <<>>),
         similarity |-> Similarity(distance)]

\* hits are formatted only when the backend sent distances
FormatResultsNeedDistances(results) ==
    IF Truthy(results.documents) /\ Truthy(results.documents[1]) /\ Truthy(results.distances)
    THEN [ i \in 1..Len(results.documents[1]) |-> FormatHit(results, i) ]
    ELSE <<>>

\* corpus.py:190-207
FormatResults(results) ==
    IF Truthy(results.documents) /\ Truthy(results.documents[1])
    THEN [ i \in 1..Len(results.documents[1]) |-> FormatHit(results, i) ]
    ELSE <<>>

NoResults == [documents |-> None, metadatas |-> None, distances |-> None]

\* the emptiness test left out: the store is always queried
EmptyCorpusNever(st) == FALSE

\* corpus.py:175
EmptyCorpus(st) == collection_count(st) = 0

\* corpus.py:158-207: the whole call
FindSimilar(query, n_results, recipient_filter) ==
    /\ AllIdle
    /\ ~find.called
    /\ IF EmptyCorpus(store)
       THEN find' = [called |-> TRUE, count |-> 0, query |-> query,
                     n_results |-> n_results, recipient_filter |-> recipient_filter,
                     queries |-> <<>>, results |-> NoResults, emails |-> <<>>]
       ELSE \E results \in QueryResults(store, n_results, WhereFilter(recipient_filter)) :
              find' = [called |-> TRUE, count |-> collection_count(store),
                       query |-> query, n_results |-> n_results,
                       recipient_filter |-> recipient_filter,
                       queries |-> << [query_texts |-> << query >>,
                                       n_results |-> n_results,
                                       where |-> WhereFilter(recipient_filter)] >>,
                       results |-> results, emails |-> FormatResults(results)]
    /\ UNCHANGED << source_vars, store, pc, max_emails, progress_callback,
                    all_emails, page_token, built_vars, stats, trace, store0,
                    repeat, last_sync, last_failure, style >>

\* the caller takes the list of hits
FindReturn ==
    /\ find.called
    /\ find' = NoFind
    /\ UNCHANGED << source_vars, store, pc, max_emails, progress_callback,
                    all_emails, page_token, built_vars, stats, trace, store0,
                    repeat, last_sync, last_failure, style >>

(* ------------------------ analyze_writing_style ------------------------ *)
\* corpus.py:319-320  [:100]
SampleFieldTrunc == 100
\* corpus.py:321  [:1000]
SampleBodyTrunc == 1000
\* corpus.py:316  indices[:5]
MaxSampleEmails == 5
\* corpus.py:271  lines[-5:]
SignOffLines == 5
\* corpus.py:326-327  most_common(10)
TopPatterns == 10
\* corpus.py:314  min(2, len(remaining))
MaxRandomPicks == 2

\* str.lower() on the ASCII letters
LowerOf ==
    ( "A" :> "a" @@ "B" :> "b" @@ "C" :> "c" @@ "D" :> "d" @@ "E" :> "e" @@ "F" :> "f"
      @@ "G" :> "g" @@ "H" :> "h" @@ "I" :> "i" @@ "J" :> "j" @@ "K" :> "k" @@ "L" :> "l"
      @@ "M" :> "m" @@ "N" :> "n" @@ "O" :> "o" @@ "P" :> "p" @@ "Q" :> "q" @@ "R" :> "r"
      @@ "S" :> "s" @@ "T" :> "t" @@ "U" :> "u" @@ "V" :> "v" @@ "W" :> "w" @@ "X" :> "x"
      @@ "Y" :> "y" @@ "Z" :> "z" )

Lower(s) == [ i \in 1..Len(s) |-> IF s[i] \in DOMAIN LowerOf THEN LowerOf[s[i]] ELSE s[i] ]

\* str.startswith
StartsWith(s, prefix) ==
    Len(prefix) <= Len(s) /\ SubSeq(s, 1, Len(prefix)) = prefix

\* str.rstrip(chars)
RECURSIVE RStripChars(_, _)
RStripChars(s, chars) ==
    IF s # <<>> /\ s[Len(s)] \in chars
    THEN RStripChars(SubSeq(s, 1, Len(s) - 1), chars) ELSE s

\* index of the first occurrence of the str `sep` in `s`, 0 when there is none
FindFirst(s, sep) ==
    LET hits == { i \in 1..(Len(s) - Len(sep) + 1) : SubSeq(s, i, i + Len(sep) - 1) = sep }
    IN  IF hits = {} THEN 0 ELSE CHOOSE i \in hits : \A j \in hits : i <= j

\* str.split(sep)
RECURSIVE Split(_, _)
Split(s, sep) ==
    LET k == FindFirst(s, sep)
    IN  IF k = 0 THEN << s >>
        ELSE << SubSeq(s, 1, k - 1) >> \o Split(SubSeq(s, k + Len(sep), Len(s)), sep)

\* corpus.py:245-249: the text after the first blank line, the whole text
\* when there is no blank line
BodyOf(doc) ==
    LET k == FindFirst(doc, BlankLine)
    IN  IF k # 0 THEN SubSeq(doc, k + Len(BlankLine), Len(doc)) ELSE doc

\* corpus.py:242-249: the loop over the documents
RECURSIVE Bodies(_)
Bodies(docs) ==
    IF docs = <<>> THEN <<>> ELSE << BodyOf(Head(docs)) >> \o Bodies(Tail(docs))

\* corpus.py:258
GreetingPatterns ==
    << <<"h", "i", " ">>,
       <<"h", "e", "y", " ">>,
       <<"h", "e", "l", "l", "o", " ">>,
       <<"d", "e", "a", "r", " ">>,
       <<"g", "o", "o", "d", " ">>,
       <<"m", "o", "r", "n", "i", "n", "g">>,
       <<"a", "f", "t", "e", "r", "n", "o", "o", "n">>,
       <<"e", "v", "e", "n", "i", "n", "g">> >>

\* corpus.py:253-260: the greeting of one body, as a list of zero or one line
Greeting(body) ==
    LET first_line == IF Truthy(Strip(body)) THEN Split(Strip(body), <<"\n">>)[1] ELSE <<>>
    IN  IF \E g \in 1..Len(GreetingPatterns) :
              StartsWith(Lower(first_line), GreetingPatterns[g])
        THEN << IF FindFirst(first_line, <<",">>) # 0
                THEN Split(first_line, <<",">>)[1] ELSE first_line >>
        ELSE <<>>

\* corpus.py:264-268
sign_off_patterns ==
    << <<"b", "e", "s", "t">>,
       <<"t", "h", "a", "n", "k", "s">>,
       <<"t", "h", "a", "n", "k", " ", "y", "o", "u">>,
       <<"r", "e", "g", "a", "r", "d", "s">>,
       <<"c", "h", "e", "e", "r", "s">>,
       <<"k", "i", "n", "d", " ", "r", "e", "g", "a", "r", "d", "s">>,
       <<"b", "e", "s", "t", " ", "r", "e", "g", "a", "r", "d", "s">>,
       <<"m", "a", "n", "y", " ", "t", "h", "a", "n", "k", "s">>,
       <<"s", "i", "n", "c", "e", "r", "e", "l", "y">>,
       <<"y", "o", "u", "r", "s">>,
       <<"w", "a", "r", "m", " ", "r", "e", "g", "a", "r", "d", "s">>,
       <<"t", "a", "k", "e", " ", "c", "a", "r", "e">> >>

\* corpus.py:270  [l.strip() for l in body.strip().split("\n") if l.strip()]
NonEmptyLines(body) ==
    LET raw == Split(Strip(body), <<"\n">>)
        stripped == [ i \in 1..Len(raw) |-> Strip(raw[i]) ]
    IN  SelectSeq(stripped, Truthy)

\* every line of the body is inspected
LastLinesAll(lines) == lines

\* corpus.py:271  lines[-5:]
LastLines(lines) ==
    SubSeq(lines, Max(1, Len(lines) - SignOffLines + 1), Len(lines))

\* corpus.py:272-273
IsSignOff(line) ==
    LET line_lower == RStripChars(Lower(line), {",", "."})
    IN  \E q \in 1..Len(sign_off_patterns) :
            StartsWith(line_lower, sign_off_patterns[q]) \/ line_lower = sign_off_patterns[q]

\* corpus.py:269-275: the sign-off of one body, as a list of zero or one line
SignOff(body) ==
    LET lines == LastLines(NonEmptyLines(body))
        hits == { i \in 1..Len(lines) : IsSignOff(lines[i]) }
    IN  IF hits = {} THEN <<>>
        ELSE << RStripChars(lines[CHOOSE i \in hits : \A j \in hits : i <= j],
                            {",", "."}) >>

\* the concatenation of the lists f[1], ..., f[k]
RECURSIVE Flatten(_, _)
Flatten(f, k) == IF k = 0 THEN <<>> ELSE Flatten(f, k - 1) \o f[k]

\* the distinct elements of a list in the order of their first occurrence
RECURSIVE FirstOccurrences(_)
FirstOccurrences(s) ==
    IF s = <<>> THEN <<>>
    ELSE LET rest == FirstOccurrences(SubSeq(s, 1, Len(s) - 1))
             last == s[Len(s)]
         IN  IF \E i \in 1..Len(rest) : rest[i] = last THEN rest ELSE Append(rest, last)

\* Counter(items).most_common(n): (element, count) pairs by decreasing count,
\* equal counts in the order of first occurrence
most_common(items, n) ==
    LET keys == FirstOccurrences(items)
        cnt == [ i \in 1..Len(keys) |->
                   Cardinality({ k \in 1..Len(items) : items[k] = keys[i] }) ]
        rank(i) == 1 + Cardinality({ j \in 1..Len(keys) :
                        cnt[j] > cnt[i] \/ (cnt[j] = cnt[i] /\ j < i) })
        ranked == [ r \in 1..Len(keys) |->
                      LET i == CHOOSE i \in 1..Len(keys) : rank(i) = r
                      IN  << keys[i], cnt[i] >> ]
    IN  Take(ranked, n)

\* corpus.py:304  sorted(enumerate(bodies), key=len of the body): the indices
\* of the bodies by increasing length, equal lengths in list order
sorted_by_length(bodies) ==
    LET rank(i) == 1 + Cardinality({ j \in 1..Len(bodies) :
                        \/ Len(bodies[j]) < Len(bodies[i])
                        \/ (Len(bodies[j]) = Len(bodies[i]) /\ j < i) })
    IN  [ r \in 1..Len(bodies) |-> CHOOSE i \in 1..Len(bodies) : rank(i) = r ]

\* the longest body is left out, the medium one is taken twice
AnchorsNoLongest(sorted) ==
    << sorted[1], sorted[(Len(sorted) \div 2) + 1], sorted[(Len(sorted) \div 2) + 1] >>

\* corpus.py:305-309: shortest, medium, longest (positions 0, len // 2 and -1
\* of the sorted list; lists are indexed from 1 here)
Anchors(sorted) ==
    << sorted[1], sorted[(Len(sorted) \div 2) + 1], sorted[Len(sorted)] >>

\* corpus.py:312  [i for i in range(len(bodies)) if i not in indices]
Remaining(n, indices) ==
    SelectSeq([ i \in 1..n |-> i ], LAMBDA i : \A k \in 1..Len(indices) : indices[k] # i)

\* random.sample(population, k): every list of k different elements
RandomSamples(population, k) ==
    { s \in [1..k -> { population[i] : i \in 1..Len(population) }] :
        \A a, b \in 1..k : s[a] = s[b] => a = b }

\* corpus.py:316-322
SampleEmails(indices, bodies, metadatas_) ==
    LET chosen == Take(indices, MaxSampleEmails)
    IN  [ k \in 1..Len(chosen) |->
            [to |-> Take(MetaGet(metadatas_[chosen[k]], "to", Unknown), SampleFieldTrunc),
             subject |-> Take(MetaGet(metadatas_[chosen[k]], "subject", <<>>), SampleFieldTrunc),
             body |-> Take(bodies[chosen[k]], SampleBodyTrunc)] ]

\* collection.get(limit=..., include=["documents", "metadatas"]): the first
\* `limit` entries.  What a store makes of a limit that is not positive is not
\* fixed by the call: nothing, everything (0 read as "no limit"), or, for a
\* negative limit, an error
Raises == [raises |-> TRUE, entries |-> <<>>]

Answers(entries) == [raises |-> FALSE, entries |-> entries]

collection_get(st, limit) ==
    IF limit >= 1 THEN { Answers(Take(st, limit)) }
    ELSE { Answers(<<>>), Answers(st) } \cup (IF limit < 0 THEN { Raises } ELSE {})

\* corpus.py:228-229
NoEmailsError == [error |-> "No emails in corpus. Run sync_sent_emails first."]

\* corpus.py:238-239
NoDocumentsError == [error |-> "No documents found in corpus."]

\* corpus.py:241-335: the report for the documents read.  The sentence
\* statistics and the phrase lists (corpus.py:277-299) are computed from the
\* bodies alone and are left out of the record.
StyleReport(documents_, metadatas_, bodies, indices) ==
    [emails_analyzed |-> Len(documents_),
     greetings |-> most_common(Flatten([ i \in 1..Len(bodies) |-> Greeting(bodies[i]) ],
                                       Len(bodies)), TopPatterns),
     sign_offs |-> most_common(Flatten([ i \in 1..Len(bodies) |-> SignOff(bodies[i]) ],
                                       Len(bodies)), TopPatterns),
     sample_emails |-> SampleEmails(indices, bodies, metadatas_)]

\* the call and what it returned; bodies and indices are the locals of
\* corpus.py:242 and 305
StyleResult(sample_size, got, bodies, indices, result) ==
    [called |-> TRUE, sample_size |-> sample_size, count |-> collection_count(store),
     raised |-> got.raises, read |-> got.entries,
     bodies |-> bodies, indices |-> indices, result |-> result]

\* corpus.py:218-335: the whole call
AnalyzeWritingStyle(sample_size) ==
    /\ AllIdle
    /\ ~find.called
    /\ ~style.called
    /\ IF collection_count(store) = 0
       THEN style' = StyleResult(sample_size, Answers(<<>>), <<>>, <<>>, NoEmailsError)
       ELSE \E got \in collection_get(store, Min(sample_size, collection_count(store))) :
              IF got.raises
              THEN style' = StyleResult(sample_size, got, <<>>, <<>>, [x \in {} |-> x])
              ELSE LET documents_ == [ i \in 1..Len(got.entries) |-> got.entries[i].document ]
                       metadatas_ == [ i \in 1..Len(got.entries) |-> got.entries[i].metadata ]
                       bodies == Bodies(documents_)
                       anchors == Anchors(sorted_by_length(bodies))
                       remaining == Remaining(Len(bodies), anchors)
                   IN  IF ~Truthy(documents_)
                       THEN style' = StyleResult(sample_size, got, <<>>, <<>>,
                                                 NoDocumentsError)
                       ELSE \E extra \in RandomSamples(remaining,
                                           Min(MaxRandomPicks, Len(remaining))) :
                              style' = StyleResult(sample_size, got, bodies,
                                         anchors \o extra,
                                         StyleReport(documents_, metadatas_, bodies,
                                                     anchors \o extra))
    /\ UNCHANGED << source_vars, store, pc, max_emails, progress_callback,
                    all_emails, page_token, built_vars, stats, trace, store0,
                    repeat, last_sync, last_failure, find >>

\* the caller takes the report
StyleReturn ==
    /\ style.called
    /\ style' = NoStyle
    /\ UNCHANGED << source_vars, store, pc, max_emails, progress_callback,
                    all_emails, page_token, built_vars, stats, trace, store0,
                    repeat, last_sync, last_failure, find >>

\* the single-threaded program of the specification: one caller
Sync(p) ==
    \/ \E m \in MaxEmailsArgs, cb \in BOOLEAN : SyncStart(p, m, cb)
    \/ FetchPage(p)
    \/ Progress(p)
    \/ LoopExit(p)
    \/ Filter(p)
    \/ Encode(p)
    \/ Add(p)
    \/ Return(p)

Next ==
    \/ Sync(1)
    \/ ChangeSource

Spec == Init /\ [][Next]_vars

(* ------------- retrieval against the stores sync can leave ------------- *)
\* the collections sync_sent_emails builds: any sequence of documents built
\* from emails with a body, one per id
Stores ==
    { collection_add(<<>>, BuildDocuments(es), encode(BuildDocuments(es)),
                     BuildMetadatas(es), BuildIds(es)) :
        es \in { m \in SeqsUpTo({ e \in EmailRecords : HasBody(e) }, NumIds) :
                   DistinctIds(m) } }

InitFind ==
    /\ mailbox = <<>>
    /\ src_chunk = 1
    /\ src_trailing = FALSE
    /\ src_endless = FALSE
    /\ store \in Stores
    /\ pc = [p \in Procs |-> "idle"]
    /\ max_emails = [p \in Procs |-> 0]
    /\ progress_callback = [p \in Procs |-> FALSE]
    /\ all_emails = [p \in Procs |-> <<>>]
    /\ page_token = [p \in Procs |-> NoToken]
    /\ documents = [p \in Procs |-> <<>>]
    /\ metadatas = [p \in Procs |-> <<>>]
    /\ ids = [p \in Procs |-> <<>>]
    /\ embeddings = [p \in Procs |-> <<>>]
    /\ stats = [p \in Procs |-> Stats(0, 0, 0)]
    /\ trace = [p \in Procs |-> <<>>]
    /\ store0 = [p \in Procs |-> <<>>]
    /\ repeat = [p \in Procs |-> FALSE]
    /\ last_sync = NoSync
    /\ last_failure = NoFailure
    /\ find = NoFind
    /\ style = NoStyle

NextFind ==
    \/ \E q \in Queries, n \in 1..MaxNResults, f \in RecipientFilters :
         FindSimilar(q, n, f)
    \/ FindReturn

SpecFind == InitFind /\ [][NextFind]_vars

(* ------------------- two callers on the same collection ---------------- *)
\* two sync calls (two server processes on one persistent collection); each
\* external call is one step, the steps of the two calls interleave freely
\* the two callers pass no progress callback and ask for at least one email
RaceSync(p) ==
    \/ \E m \in 1..NumIds : SyncStart(p, m, FALSE)
    \/ FetchPage(p)
    \/ LoopExit(p)
    \/ Filter(p)
    \/ Encode(p)
    \/ Add(p)
    \/ Return(p)

\* the mail source serves a call's whole batch in one page
InitRace ==
    /\ Init
    /\ src_chunk = NumIds
    /\ ~src_trailing

NextRace ==
    \/ RaceSync(1)
    \/ RaceSync(2)

SpecRace == InitRace /\ [][NextRace]_vars

(* -------------- style analysis of the stores sync can leave ------------ *)
\* the bodies of the emails the analysis is run on
StyleBodies ==
    << <<"H", "i", " ", "A", "l", ",", "\n", "B", "e", "s", "t", " ", "r", "e", "g", "a", "r", "d", "s", ",", "\n", "S", "a", "m">>,
       <<"T", "h", "a", "n", "k", "s", ".", "\n", "1", "\n", "2", "\n", "3", "\n", "4", "\n", "5">>,
       <<"o", "k">>,
       <<"C", "h", "e", "e", "r", "s", ",", "\n", "\n", " ", "t", "h", "a", "n", "k", "s", ".", "\n">> >>

\* email i carries one of two bodies
StyleBodiesOf(i) ==
    { StyleBodies[((i - 1) % Len(StyleBodies)) + 1], StyleBodies[(i % Len(StyleBodies)) + 1] }

StyleEmail(i, body) ==
    EmailRecord(i, [to |-> <<"a", "@", "x">>, subject |-> <<"h", "i">>, body |-> body])

\* the batches of 0..MaxSampled emails with ids 1, 2, ...
StyleBatches ==
    UNION { { [ i \in 1..n |-> StyleEmail(i, f[i]) ] :
                f \in { g \in [1..n -> { StyleBodies[b] : b \in 1..Len(StyleBodies) }] :
                          \A i \in 1..n : g[i] \in StyleBodiesOf(i) } } :
            n \in 0..MaxSampled }

\* the collections sync_sent_emails builds from these batches
StyleStores ==
    { collection_add(<<>>, BuildDocuments(es), encode(BuildDocuments(es)),
                     BuildMetadatas(es), BuildIds(es)) : es \in StyleBatches }

SampleSizes == -1..(MaxSampled + 1)

InitStyle ==
    /\ mailbox = <<>>
    /\ src_chunk = 1
    /\ src_trailing = FALSE
    /\ src_endless = FALSE
    /\ store \in StyleStores
    /\ NoCall

NextStyle ==
    \/ \E sample_size \in SampleSizes : AnalyzeWritingStyle(sample_size)
    \/ StyleReturn

SpecStyle == InitStyle /\ [][NextStyle]_vars

(* ------------- sync of emails with fields longer than MetaTrunc -------- *)
Repeated(c, n) == [ i \in 1..n |-> c ]

\* an email whose recipient and subject exceed MetaTrunc characters, an email
\* whose body is empty after trimming, and a short one
LongShapes ==
    { [to |-> <<"a", "@">> \o Repeated("x", MetaTrunc),
       subject |-> Repeated("s", MetaTrunc + 1), body |-> <<"O", "k", ".">>],
      [to |-> <<"a", "@", "x">>, subject |-> <<"r", "e">>, body |-> <<" ", "\n">>],
      [to |-> <<"b", "@", "y">>, subject |-> <<>>, body |-> <<" ", "y", "o", "\n">>] }

\* email 1 exists in every shape, the others in the two short ones
LongShapesOf(i) ==
    IF i = 1 THEN LongShapes ELSE { sh \in LongShapes : Len(sh.to) <= MetaTrunc }

LongMailboxes ==
    { m \in SeqsUpTo(UNION { { EmailRecord(i, sh) : sh \in LongShapesOf(i) } : i \in Ids },
                     NumIds) :
        NewestFirst(m) }

InitLong ==
    /\ mailbox \in LongMailboxes
    /\ src_chunk \in 1..NumIds
    /\ src_trailing \in BOOLEAN
    /\ src_endless = FALSE
    /\ store = <<>>
    /\ NoCall

NextLong == Sync(1)

SpecLong == InitLong /\ [][NextLong]_vars

(* ------------ sync under fair scheduling, any mail source -------------- *)
\* the max_emails arguments of the calls whose termination is checked
LiveArgs == -1..(NumIds + 1)

\* the mail source is a finite mailbox or the source that never runs dry
InitLive ==
    /\ src_endless \in BOOLEAN
    /\ IF src_endless
       THEN mailbox = <<>> /\ src_trailing = FALSE
       ELSE mailbox \in Mailboxes /\ src_trailing \in BOOLEAN
    /\ src_chunk \in 1..NumIds
    /\ store = <<>>
    /\ NoCall

\* the steps sync_sent_emails takes by itself once it is entered
Step(p) ==
    \/ FetchPage(p)
    \/ Progress(p)
    \/ LoopExit(p)
    \/ Filter(p)
    \/ Encode(p)
    \/ Add(p)

NextLive ==
    \/ \E m \in LiveArgs, cb \in BOOLEAN : SyncStart(1, m, cb)
    \/ Step(1)
    \/ Return(1)

\* every external call returns and the interpreter goes on: a step of the
\* running call that stays possible is taken
SpecLive == InitLive /\ [][NextLive]_vars /\ WF_vars(Step(1))

\* every collection the sync model reaches is one retrieval is checked on
StoreIsBuilt == store \in Stores

(* ------------------ sync with collaborators that may fail -------------- *)
SyncFails(p) ==
    \/ FetchFails(p)
    \/ GetFails(p)
    \/ EncodeFails(p)
    \/ AddFails(p)
    \/ Raise(p)

NextFail ==
    \/ Sync(1)
    \/ SyncFails(1)

SpecFail == Init /\ [][NextFail]_vars

(* ============================== properties ============================= *)
\* the external calls of one kind in a call's trace, in order
Calls(t, op) == SelectSeq(t, LAMBDA e : e.op = op)

Returned(p) == pc[p] = "returned"

\* C1: a sync that repeats the previous sync (same max_emails, mail source
\* unchanged) returns embedded = 0 and skipped = downloaded, calls neither the
\* embedding backend nor the store write, and leaves the store as it was.
C1_SyncIdempotent ==
    \A p \in Procs :
        (Returned(p) /\ repeat[p]) =>
            /\ stats[p].embedded = 0
            /\ stats[p].skipped = stats[p].downloaded
            /\ Calls(trace[p], "encode") = <<>>
            /\ Calls(trace[p], "add") = <<>>
            /\ store = store0[p]

\* a repeated sync has returned whose batch holds a stored email and an
\* empty-body email that the first run could not store
C1_Witness ==
    /\ Returned(1) /\ repeat[1]
    /\ \E i, j \in 1..Len(all_emails[1]) :
         /\ ~HasBody(all_emails[1][i])
         /\ all_emails[1][i].id \notin StoredIds(store)
         /\ all_emails[1][j].id \in StoredIds(store)

\* C2: every return of sync with downloaded > 0 has downloaded = embedded +
\* skipped, and skipped is the number of fetched emails that were already
\* stored when the call read the store or have an empty trimmed body.
C2_StatsBalance ==
    \A p \in Procs :
        (Returned(p) /\ stats[p].downloaded > 0) =>
            /\ stats[p].downloaded = stats[p].embedded + stats[p].skipped
            /\ stats[p].downloaded = Len(all_emails[p])
            /\ stats[p].skipped =
                 Cardinality({ i \in 1..Len(all_emails[p]) :
                                 \/ all_emails[p][i].id \in StoredIds(store0[p])
                                 \/ ~HasBody(all_emails[p][i]) })

\* a sync has returned after fetching one stored email and one new email
\* with a body
C2_Witness ==
    /\ Returned(1) /\ stats[1].embedded = 1 /\ stats[1].skipped = 1
    /\ \E i \in 1..Len(all_emails[1]) : all_emails[1][i].id \in StoredIds(store0[1])

\* every document of st is in st2, unchanged
Preserved(st, st2) ==
    \A i \in 1..Len(st) : \E j \in 1..Len(st2) : st2[j] = st[i]

\* C3: no step changes or removes a stored document, the store never holds
\* two documents under one id, and no id that was stored when a sync call
\* started is passed by that call to the embedding backend or the store write.
C3_NoOverwrite ==
    /\ [][Preserved(store, store')]_vars
    /\ [](/\ DistinctIds(store)
          /\ \A p \in Procs : \A k \in 1..Len(trace[p]) :
               trace[p][k].op \in {"encode", "add"} =>
                 \A n \in 1..Len(trace[p][k].ids) :
                   trace[p][k].ids[n] \notin StoredIds(store0[p]))

\* a sync has written to the store after the mail source served a record
\* that reuses a stored id with other contents
C3_Witness ==
    /\ Returned(1) /\ Calls(trace[1], "add") # <<>>
    /\ \E i \in 1..Len(all_emails[1]) : \E j \in 1..Len(store0[1]) :
         /\ all_emails[1][i].id = store0[1][j].id
         /\ BuildDocument(all_emails[1][i]) # store0[1][j].document
         /\ HasBody(all_emails[1][i])
         /\ store[j] = store0[1][j]

\* C4: every hit for which the backend sent a distance d carries
\* similarity = 1 - d, and so similarity 1 at distance 0.
C4_SimilarityIsOneMinusDistance ==
    (find.called /\ Truthy(find.results.distances)) =>
        /\ Len(find.emails) = Len(find.results.distances[1])
        /\ \A i \in 1..Len(find.emails) :
             find.emails[i].similarity = << 1 - find.results.distances[1][i] >>

\* C5: when the answer of the store carries no distances, the call returns
\* one hit per returned document, in the order of the answer, each with
\* similarity null.
C5_NoDistancesAllNull ==
    (find.called /\ find.queries # <<>> /\ ~Truthy(find.results.distances)) =>
        /\ Len(find.emails) = Len(find.results.documents[1])
        /\ \A i \in 1..Len(find.emails) :
             /\ find.emails[i].content = find.results.documents[1][i]
             /\ find.emails[i].similarity = None

\* the store answered with two documents and no distances
C5_Witness ==
    /\ find.called /\ find.queries # <<>>
    /\ ~Truthy(find.results.distances)
    /\ Len(find.results.documents[1]) = 2
    /\ Len(find.emails) = 2

\* C6: a call on an empty store returns the empty list and issues no query
\* to the vector store, whatever the query, n_results and recipient_filter.
C6_EmptyStoreNoQuery ==
    (find.called /\ Len(store) = 0) =>
        /\ find.emails = <<>>
        /\ find.queries = <<>>

\* find_similar_emails was called on an empty store with a recipient filter
C6_Witness ==
    /\ find.called /\ Len(store) = 0
    /\ Truthy(find.recipient_filter) /\ find.n_results = MaxNResults

\* the fetched emails a call has to embed: not stored when the call started,
\* and with a body
Fresh(p) ==
    { i \in 1..Len(all_emails[p]) :
        /\ all_emails[p][i].id \notin StoredIds(store0[p])
        /\ HasBody(all_emails[p][i]) }

\* C7: at every return of sync the store holds `embedded` more documents than
\* when the call started, and the ids added are exactly the fetched ids that
\* were not stored and have a non-empty trimmed body.
C7_EmbeddedIsAdded ==
    \A p \in Procs :
        Returned(p) =>
            /\ Len(store) = Len(store0[p]) + stats[p].embedded
            /\ StoredIds(store) \ StoredIds(store0[p])
                 = { all_emails[p][i].id : i \in Fresh(p) }
            /\ Cardinality(StoredIds(store)) = Len(store)

\* a sync has returned that stored at least one email and skipped another
C7_Witness ==
    /\ Returned(1) /\ stats[1].embedded >= 1 /\ stats[1].skipped >= 1
    /\ Len(store) > Len(store0[1])

\* records accumulated by the first k page fetches
RECURSIVE Accumulated(_, _)
Accumulated(f, k) == IF k = 0 THEN 0 ELSE Accumulated(f, k - 1) + f[k].returned

LoopDone(p) == pc[p] \in {"filter", "encode", "add", "returned"}

\* the pagination rule of one call: first fetch without cursor, page size
\* min(max_emails - accumulated, PageCap), cursors handed on, and no fetch
\* after the quota is reached, after an empty page or after a missing cursor
PaginationRule(p) ==
    LET f == Calls(trace[p], "get_sent_emails")
    IN  /\ \A k \in 1..Len(f) :
              /\ f[k].page_token = IF k = 1 THEN NoToken ELSE f[k - 1].next_page_token
              /\ f[k].max_results = Min(max_emails[p] - Accumulated(f, k - 1), PageCap)
              /\ k < Len(f) =>
                   /\ Accumulated(f, k) < max_emails[p]
                   /\ f[k].returned > 0
                   /\ f[k].next_page_token # NoToken
        /\ Accumulated(f, Len(f)) = Len(all_emails[p])
        /\ LoopDone(p) =>
              \/ Len(all_emails[p]) >= max_emails[p]
              \/ f[Len(f)].returned = 0
              \/ f[Len(f)].next_page_token = NoToken

NeverOverServed(p) ==
    LET f == Calls(trace[p], "get_sent_emails")
    IN  \A k \in 1..Len(f) : f[k].returned <= f[k].max_results

\* C8 as stated: the pagination rule, and downloaded <= max_emails for a
\* mail source that never returns more than requested.
C8_Pagination ==
    \A p \in Procs :
        /\ PaginationRule(p)
        /\ (Returned(p) /\ NeverOverServed(p)) => stats[p].downloaded <= max_emails[p]

\* C8 amended: the pagination rule, and downloaded <= max(max_emails, 0) for
\* a mail source that never returns more than requested.
C8_PaginationAmended ==
    \A p \in Procs :
        /\ PaginationRule(p)
        /\ (Returned(p) /\ NeverOverServed(p)) =>
               stats[p].downloaded <= Max(max_emails[p], 0)

\* a sync with max_emails above the page cap has returned after two pages,
\* each requested with the capped page size
C8_Witness ==
    LET f == Calls(trace[1], "get_sent_emails")
    IN  /\ Returned(1) /\ max_emails[1] > PageCap
        /\ Len(f) >= 2 /\ f[1].max_results = PageCap /\ f[2].page_token # NoToken
        /\ stats[1].downloaded = 2

\* positions of the calls of one kind in a trace
At(t, op) == { k \in 1..Len(t) : t[k].op = op }

\* C9: a sync call calls the embedding backend at most once and writes the
\* store at most once, the write comes after the embedding call, and either
\* happens only if a fetched email was not stored and has a body; a call that
\* returns without such an email has made neither call.
C9_EmbedOnceThenWrite ==
    \A p \in Procs :
        LET enc == At(trace[p], "encode")
            add == At(trace[p], "add")
        IN  /\ Cardinality(enc) <= 1
            /\ Cardinality(add) <= 1
            /\ \A a \in add : \E e \in enc : e < a
            /\ (enc # {} \/ add # {}) => Fresh(p) # {}
            /\ (Returned(p) /\ Fresh(p) = {}) => (enc = {} /\ add = {})
            /\ (Returned(p) /\ Fresh(p) # {}) => (enc # {} /\ add # {})

\* a sync has returned after one embedding call followed by one store write,
\* with a stored or empty-body email left out of the batch
C9_Witness ==
    /\ Returned(1)
    /\ At(trace[1], "encode") # {} /\ At(trace[1], "add") # {}
    /\ Cardinality(Fresh(1)) < Len(all_emails[1])

\* the callback rule for the fetches in Pages(t): each is followed at once by
\* a callback with (accumulated count, max_emails); callbacks occur nowhere
\* else; the counts never decrease; the last one is the downloaded count
ProgressRule(p, pages) ==
    LET t == trace[p]
        prog == Calls(t, "progress_callback")
        n_acc(k) == Accumulated(Calls(SubSeq(t, 1, k), "get_sent_emails"),
                                Len(Calls(SubSeq(t, 1, k), "get_sent_emails")))
    IN  /\ \A k \in pages :
              IF k = Len(t) THEN pc[p] = "progress"
              ELSE /\ t[k + 1].op = "progress_callback"
                   /\ t[k + 1].current = n_acc(k)
                   /\ t[k + 1].total = max_emails[p]
        /\ \A k \in At(t, "progress_callback") :
              k > 1 /\ t[k - 1].op = "get_sent_emails"
        /\ \A i \in 1..(Len(prog) - 1) : prog[i].current <= prog[i + 1].current
        /\ (Returned(p) /\ prog # <<>>) => prog[Len(prog)].current = stats[p].downloaded

\* C10 as stated: with a callback, every fetched page is followed by the
\* callback.
C10_ProgressEveryPage ==
    \A p \in Procs :
        progress_callback[p] => ProgressRule(p, At(trace[p], "get_sent_emails"))

\* C10 amended: with a callback, every fetched page that is not empty is
\* followed by the callback; an empty page is not.
C10_ProgressNonEmptyPage ==
    \A p \in Procs :
        LET t == trace[p]
        IN  /\ progress_callback[p] =>
                 ProgressRule(p, { k \in At(t, "get_sent_emails") : t[k].returned > 0 })
            /\ \A k \in At(t, "get_sent_emails") :
                 (t[k].returned = 0 /\ k < Len(t)) => t[k + 1].op # "progress_callback"
            /\ ~progress_callback[p] => At(t, "progress_callback") = {}

\* a sync with a callback has returned after two pages and an empty third
\* one: two callbacks, the last one reporting the downloaded count
C10_Witness ==
    LET prog == Calls(trace[1], "progress_callback")
        f == Calls(trace[1], "get_sent_emails")
    IN  /\ Returned(1) /\ progress_callback[1]
        /\ Len(prog) = 2 /\ Len(f) = 3 /\ f[3].returned = 0
        /\ prog[1].current = 1 /\ prog[2].current = 2 /\ stats[1].downloaded = 2

\* the documents and ids a call handed to the embedding backend
Embedded(p) ==
    LET enc == Calls(trace[p], "encode")
    IN  IF enc = <<>> THEN [documents |-> <<>>, ids |-> <<>>]
        ELSE [documents |-> enc[1].documents, ids |-> enc[1].ids]

IsPrefix(s, t) == Len(s) <= Len(t) /\ SubSeq(t, 1, Len(s)) = s

\* C11: a failure of the mail source (on any page), of the embedding backend
\* or of the store write is the last thing the call does (it reaches the
\* caller, nothing is retried) and the store is as it was when the call
\* started; a later sync with the same arguments against the same mail source
\* fetches the failed call's batch again, embeds exactly the fetched emails
\* with a body whose ids were not stored (the very documents the failed call
\* had built, when it had got that far), and embeds no id stored before the
\* failure.
C11_FailureSemantics ==
    \A p \in Procs :
        /\ \A k \in 1..Len(trace[p]) :
             trace[p][k].op = "raise" => (k = Len(trace[p]) /\ pc[p] = "raised")
        /\ pc[p] = "raised" =>
             /\ store = store0[p]
             /\ Len(Calls(trace[p], "raise")) = 1
        /\ (Returned(p) /\ last_failure.valid) =>
             /\ store0[p] = last_failure.store
             /\ IsPrefix(last_failure.fetched, all_emails[p])
             /\ last_failure.call \in {"encode", "add"} =>
                  /\ Embedded(p).documents = last_failure.documents
                  /\ Embedded(p).ids = last_failure.ids
             /\ { Embedded(p).ids[n] : n \in 1..Len(Embedded(p).ids) }
                  = { all_emails[p][i].id : i \in Fresh(p) }
             /\ Len(Embedded(p).ids) = Cardinality(Fresh(p))
             /\ \A n \in 1..Len(Embedded(p).ids) :
                  Embedded(p).ids[n] \notin StoredIds(last_failure.store)
             /\ Preserved(last_failure.store, store)
             /\ StoredIds(store) = StoredIds(last_failure.store)
                                     \cup { all_emails[p][i].id : i \in Fresh(p) }

\* a sync has returned that repeats a call whose store write failed, the
\* store held documents before the failure and the repeated call stored more
C11_Witness ==
    \E p \in Procs :
        /\ Returned(p)
        /\ last_failure.valid
        /\ last_failure.call = "add"
        /\ last_failure.store # <<>>
        /\ Embedded(p).ids # <<>>
        /\ Len(store) > Len(last_failure.store)

\* a sync has raised on the second page of the mail source
C11_WitnessSecondPage ==
    \E p \in Procs :
        /\ pc[p] = "raised"
        /\ trace[p][Len(trace[p])].call = "get_sent_emails"
        /\ all_emails[p] # <<>>

\* the document text of an email: "To: <to>", newline, "Subject: <subject>",
\* newline, blank line, the raw body
TextOf(e) ==
    <<"T", "o", ":", " ">> \o e.to \o <<"\n">>
      \o <<"S", "u", "b", "j", "e", "c", "t", ":", " ">> \o e.subject \o <<"\n">>
      \o <<"\n">> \o e.body

FirstChars(s, n) == [ i \in 1..(IF Len(s) < n THEN Len(s) ELSE n) |-> s[i] ]

\* stored entry d is what one sync stores for email e
BuiltFrom(d, e) ==
    /\ Strip(e.body) # <<>>
    /\ d.id = e.id
    /\ d.document = TextOf(e)
    /\ d.metadata = [to |-> FirstChars(e.to, 500),
                     subject |-> FirstChars(e.subject, 500),
                     date |-> e.date, thread_id |-> e.thread_id]
    /\ d.embedding = EmbedOne(TextOf(e))

\* the ids a call read from the collection (corpus.py:101)
ExistingRead(p) == Calls(trace[p], "get")[1].existing

\* both calls have returned, both wrote, and both had read the same set of
\* stored ids: neither read after the other's write
BothReadBeforeWrite ==
    /\ \A p \in Procs :
         /\ Returned(p)
         /\ Calls(trace[p], "get") # <<>>
         /\ Calls(trace[p], "add") # <<>>
    /\ ExistingRead(1) = ExistingRead(2)

\* the fetched emails of both calls that have a body
FetchedWithBody ==
    { e \in UNION { { all_emails[p][i] : i \in 1..Len(all_emails[p]) } : p \in Procs } :
        Strip(e.body) # <<>> }

\* C12: when two sync calls have both read the stored ids before either
\* wrote, both return and the store holds exactly one document per fetched id
\* with a body, each new one with the text, metadata and embedding a single
\* sync stores for that email; the stored ids are the ids read plus the
\* fetched ids with a body.
C12_OverlappingSyncs ==
    BothReadBeforeWrite =>
        /\ \A e \in FetchedWithBody :
             Cardinality({ i \in 1..Len(store) : store[i].id = e.id }) = 1
        /\ Cardinality(StoredIds(store)) = Len(store)
        /\ StoredIds(store) = ExistingRead(1) \cup { e.id : e \in FetchedWithBody }
        /\ \A i \in 1..Len(store) :
             store[i].id \notin ExistingRead(1) =>
               \E e \in FetchedWithBody : BuiltFrom(store[i], e)

\* two overlapping calls have returned and one document was embedded by both
C12_Witness ==
    /\ BothReadBeforeWrite
    /\ \E n \in 1..Len(Embedded(1).ids), k \in 1..Len(Embedded(2).ids) :
         Embedded(1).ids[n] = Embedded(2).ids[k]
    /\ Len(Embedded(1).ids) # Len(Embedded(2).ids)

\* the call returned a report (not an error value)
IsReport == style.called /\ ~style.raised /\ "error" \notin DOMAIN style.result

\* C13: analyze_writing_style returns a result with only an 'error' field
\* when the store holds no document or the sampling read returned none, for
\* every sample_size, and otherwise a report whose emails_analyzed is
\* min(sample_size, store count).
C13_ErrorOrReport ==
    (style.called /\ ~style.raised) =>
        IF style.count = 0 \/ style.read = <<>>
        THEN DOMAIN style.result = {"error"}
        ELSE /\ {"emails_analyzed", "greetings", "sign_offs", "sample_emails"}
                  \subseteq DOMAIN style.result
             /\ "error" \notin DOMAIN style.result
             /\ style.result.emails_analyzed = Min(style.sample_size, style.count)

\* the same for the sample sizes that ask for at least one document
C13_PositiveSampleSize ==
    style.called =>
        /\ style.count = 0 => (~style.raised /\ DOMAIN style.result = {"error"})
        /\ (style.count > 0 /\ style.sample_size >= 1) =>
             /\ ~style.raised
             /\ "error" \notin DOMAIN style.result
             /\ style.result.emails_analyzed = Min(style.sample_size, style.count)

ExpectedSignOff(body) ==
    LET lines == NonEmptyLines(body)
        inspected == { i \in 1..Len(lines) : i > Len(lines) - 5 }
        Bare(line) == RStripChars(line, {",", "."})
        Matches(line) ==
            \E q \in 1..Len(sign_off_patterns) :
                \/ StartsWith(Bare(Lower(line)), sign_off_patterns[q])
                \/ Bare(Lower(line)) = sign_off_patterns[q]
        matching == { i \in inspected : Matches(lines[i]) }
    IN  IF matching = {} THEN <<>>
        ELSE << Bare(lines[CHOOSE i \in matching : \A j \in matching : i <= j]) >>

\* what the rule records for each body of a list
RECURSIVE ExpectedSignOffs(_)
ExpectedSignOffs(bodies) ==
    IF bodies = <<>> THEN <<>>
    ELSE << ExpectedSignOff(Head(bodies)) >> \o ExpectedSignOffs(Tail(bodies))

RECURSIVE TotalCount(_, _)
TotalCount(ranked, k) == IF k = 0 THEN 0 ELSE TotalCount(ranked, k - 1) + ranked[k][2]

\* the body ends in the lines 'Best regards,' and 'Sam'
EndsBestRegardsSam(body) ==
    LET lines == NonEmptyLines(body)
    IN  /\ Len(lines) >= 2
        /\ lines[Len(lines) - 1] = <<"B", "e", "s", "t", " ", "r", "e", "g", "a", "r", "d", "s", ",">>
        /\ lines[Len(lines)] = <<"S", "a", "m">>

C18_SampleDistinct ==
    IsReport =>
        /\ \A a, b \in 1..Len(style.indices) :
             style.indices[a] = style.indices[b] => a = b
        /\ Len(style.result.sample_emails) = Min(Len(style.bodies), 5)

\* the position of the email with id i in a fetched batch, 0 when there is none
PositionOf(batch, i) ==
    IF \E n \in 1..Len(batch) : batch[n].id = i
    THEN CHOOSE n \in 1..Len(batch) : batch[n].id = i
    ELSE 0

\* C16: every stored document is built from an email of the mail source whose
\* body is non-empty after trimming: text 'To: <to>', newline, 'Subject:
\* <subject>', newline, blank line, raw body; metadata 'to' and 'subject' the
\* first 500 characters of the fields, 'date' and 'thread_id' unchanged.  The
\* documents a call adds are built from emails of its fetched batch, and the
\* four lists handed to the store write are parallel: entry k of ids,
\* documents, embeddings and metadatas comes from one email of the batch, and
\* the entries follow the order of the batch.
C16_StoredDocuments ==
    /\ \A i \in 1..Len(store) :
         \E n \in 1..Len(mailbox) : BuiltFrom(store[i], mailbox[n])
    /\ \A p \in Procs :
         /\ Returned(p) =>
              \A i \in (Len(store0[p]) + 1)..Len(store) :
                \E n \in 1..Len(all_emails[p]) : BuiltFrom(store[i], all_emails[p][n])
         /\ \A a \in 1..Len(trace[p]) :
              trace[p][a].op = "add" =>
                LET ev == trace[p][a]
                    pos(k) == PositionOf(all_emails[p], ev.ids[k])
                IN  /\ Len(ev.documents) = Len(ev.ids)
                    /\ Len(ev.embeddings) = Len(ev.ids)
                    /\ Len(ev.metadatas) = Len(ev.ids)
                    /\ \A k \in 1..Len(ev.ids) :
                         /\ pos(k) # 0
                         /\ BuiltFrom([id |-> ev.ids[k], document |-> ev.documents[k],
                                       embedding |-> ev.embeddings[k],
                                       metadata |-> ev.metadatas[k]],
                                      all_emails[p][pos(k)])
                    /\ \A k, l \in 1..Len(ev.ids) : k < l => pos(k) < pos(l)

\* a sync has returned that added documents to a store holding a document
\* whose recipient and subject are cut to 500 characters in the metadata and
\* kept whole in the text
C16_Witness ==
    \E p \in Procs :
        /\ Returned(p)
        /\ Len(store) > Len(store0[p])
        /\ Len(store) = 2
        /\ \E i \in 1..Len(store) :
             /\ Len(store[i].metadata.to) = 500
             /\ Len(store[i].metadata.subject) = 500
             /\ Len(store[i].document) > 1000

\* the page fetches of the running call
Fetches(p) == Calls(trace[p], "get_sent_emails")

\* C17: a call of sync_sent_emails makes at most max(max_emails, 0) page
\* fetches, whatever the mail source serves (also when every page is
\* non-empty and has a next cursor), and then returns; with max_emails <= 0
\* it makes no fetch and returns all-zero statistics.
C17_Termination ==
    /\ [](\A p \in Procs :
            /\ Len(Fetches(p)) <= (IF max_emails[p] > 0 THEN max_emails[p] ELSE 0)
            /\ (Returned(p) /\ max_emails[p] <= 0) =>
                 /\ Len(Fetches(p)) = 0
                 /\ stats[p] = [downloaded |-> 0, embedded |-> 0, skipped |-> 0])
    /\ \A p \in {1} : (pc[p] = "loop") ~> Returned(p)

\* a call against the source that never runs dry has returned after as many
\* fetches as max_emails allows, more than one
C17_Witness ==
    \E p \in Procs :
        /\ src_endless
        /\ Returned(p)
        /\ max_emails[p] > 1
        /\ Len(Fetches(p)) = max_emails[p]
        /\ Fetches(p)[Len(Fetches(p))].next_page_token # NoToken

====
